---- MODULE Spec2Model ----
(***************************************************************************)
(* State-machine model of server.js (the Express back end of LATHYSPRAY):  *)
(* the JSON record files, the session gate, the agronomy and farm-report   *)
(* handlers.  The file holds two generations of the server; the model      *)
(* follows the later one (src/server.js lines 330-1073).                    *)
(*                                                                         *)
(* JavaScript values are tagged records, so that the language's falsy,     *)
(* nullish and strict-equality rules can be applied as the code applies    *)
(* them.  Strings are tuples of one-character strings ("1-3" is            *)
(* <<"1","-","3">>) so that trim, split and parseInt can be computed.      *)
(***************************************************************************)
EXTENDS Integers, Sequences, FiniteSets, TLC

(***************************************************************************)
(* JavaScript values                                                       *)
(***************************************************************************)
Undef == [undef |-> TRUE]
Null == [null |-> TRUE]
NaN == [nan |-> TRUE]
Num(n) == [num |-> n]
Str(s) == [str |-> s]

\* A JSON array of strings, as bodyParser.json() hands it over: an object
ArrayOf(items) == [arr |-> items]

IsNum(v) == DOMAIN v = {"num"}
IsStr(v) == DOMAIN v = {"str"}
IsArray(v) == DOMAIN v = {"arr"}

\* !v
Falsy(v) == v \in {Undef, Null, NaN, Num(0), Str(<<>>)}
Truthy(v) == ~Falsy(v)
\* a === b: NaN equals nothing, and two arrays parsed from two JSON texts are
\* two objects
StrictEq(a, b) == a = b /\ a # NaN /\ ~IsArray(a)
\* a || b
Or(a, b) == IF Truthy(a) THEN a ELSE b
\* a ?? b
Nullish(v) == v \in {Undef, Null}
Coalesce(a, b) == IF Nullish(a) THEN b ELSE a

\* Operations on sequences
RECURSIVE SelectIndex(_, _, _)
SelectIndex(s, Test(_), i) ==
    IF i > Len(s) THEN 0
    ELSE IF Test(s[i]) THEN i
    ELSE SelectIndex(s, Test, i + 1)
\* Array.prototype.findIndex, 1-based; 0 when nothing matches
FindIndex(s, Test(_)) == SelectIndex(s, Test, 1)
Range(s) == {s[i] : i \in DOMAIN s}

(***************************************************************************)
(* Strings                                                                 *)
(***************************************************************************)
Digits == <<"0", "1", "2", "3", "4", "5", "6", "7", "8", "9">>
IsDigit(c) == c \in Range(Digits)
DigitVal(c) == CHOOSE d \in 0..9 : Digits[d + 1] = c
IsSpace(c) == c = " "

RECURSIVE TrimLeft(_)
TrimLeft(s) == IF s # <<>> /\ IsSpace(Head(s)) THEN TrimLeft(Tail(s)) ELSE s
RECURSIVE TrimRight(_)
TrimRight(s) ==
    IF s # <<>> /\ IsSpace(s[Len(s)]) THEN TrimRight(SubSeq(s, 1, Len(s) - 1)) ELSE s
\* String.prototype.trim
Trim(s) == TrimRight(TrimLeft(s))

RECURSIVE SplitFrom(_, _, _)
SplitFrom(s, sep, cur) ==
    IF s = <<>> THEN <<cur>>
    ELSE IF Head(s) = sep THEN <<cur>> \o SplitFrom(Tail(s), sep, <<>>)
    ELSE SplitFrom(Tail(s), sep, Append(cur, Head(s)))
\* String.prototype.split with a one-character separator
Split(s, sep) == SplitFrom(s, sep, <<>>)

RECURSIVE DigitPrefix(_)
DigitPrefix(s) ==
    IF s # <<>> /\ IsDigit(Head(s)) THEN <<Head(s)>> \o DigitPrefix(Tail(s)) ELSE <<>>
RECURSIVE DigitsValue(_, _)
DigitsValue(s, acc) ==
    IF s = <<>> THEN acc ELSE DigitsValue(Tail(s), 10 * acc + DigitVal(Head(s)))

\* parseInt(s, 10) of a string: leading blanks, a sign, the longest run of digits
ParseIntStr(s) ==
    LET t == TrimLeft(s)
        neg == t # <<>> /\ Head(t) = "-"
        u == IF t # <<>> /\ Head(t) \in {"-", "+"} THEN Tail(t) ELSE t
        d == DigitPrefix(u)
    IN IF d = <<>> THEN NaN
       ELSE Num(IF neg THEN 0 - DigitsValue(d, 0) ELSE DigitsValue(d, 0))

RECURSIVE NatToStr(_)
NatToStr(n) ==
    IF n < 10 THEN <<Digits[n + 1]>> ELSE Append(NatToStr(n \div 10), Digits[(n % 10) + 1])

\* items.join(",") of an array of strings
RECURSIVE JoinStrs(_)
JoinStrs(items) ==
    IF items = <<>> THEN <<>>
    ELSE IF Len(items) = 1 THEN items[1].str
    ELSE items[1].str \o <<",">> \o JoinStrs(Tail(items))

\* String(v)
ToStr(v) ==
    IF IsStr(v) THEN v.str
    ELSE IF IsArray(v) THEN JoinStrs(v.arr)
    ELSE IF IsNum(v) THEN (IF v.num < 0 THEN <<"-">> \o NatToStr(0 - v.num) ELSE NatToStr(v.num))
    ELSE IF v = Undef THEN <<"u", "n", "d", "e", "f", "i", "n", "e", "d">>
    ELSE IF v = Null THEN <<"n", "u", "l", "l">>
    ELSE <<"N", "a", "N">>

\* parseInt(v, 10): the argument is converted to a string first
ParseInt(v) == ParseIntStr(ToStr(v))

\* Number(v), over integers: a string is a number when, trimmed, it is empty or
\* an optionally signed run of digits
ToNumber(v) ==
    IF IsNum(v) THEN v
    ELSE IF v = Null THEN Num(0)
    ELSE IF IsStr(v) THEN
        LET t == Trim(v.str)
            u == IF t # <<>> /\ Head(t) \in {"-", "+"} THEN Tail(t) ELSE t
        IN IF t = <<>> THEN Num(0)
           ELSE IF u # <<>> /\ DigitPrefix(u) = u THEN ParseIntStr(t)
           ELSE NaN
    ELSE NaN

\* Math.max(a, b): NaN when either argument is not a number
Max2(a, b) ==
    LET x == ToNumber(a)
        y == ToNumber(b)
    IN IF x = NaN \/ y = NaN THEN NaN
       ELSE IF x.num >= y.num THEN x ELSE y

\* v + 1
Plus1(v) == LET x == ToNumber(v) IN IF x = NaN THEN NaN ELSE Num(x.num + 1)

LowerChar(c) == IF c = "A" THEN "a" ELSE IF c = "B" THEN "b" ELSE c
\* String.prototype.toLowerCase over the letters the model uses
ToLowerCase(s) == [i \in DOMAIN s |-> LowerChar(s[i])]

(***************************************************************************)
(* Objects: functions from the keys present to values                      *)
(***************************************************************************)
EmptyObj == [k \in {} |-> Undef]
\* o.k
Get(o, k) == IF k \in DOMAIN o THEN o[k] ELSE Undef
\* { ...a, ...b }
Spread(a, b) == [k \in DOMAIN a \cup DOMAIN b |-> IF k \in DOMAIN b THEN b[k] ELSE a[k]]
\* o.k = v
Put(o, k, v) == [x \in DOMAIN o \cup {k} |-> IF x = k THEN v ELSE o[x]]

\* JSON.parse(JSON.stringify(o)): a key holding undefined is left out, NaN is null
JSONObj(o) ==
    [k \in {x \in DOMAIN o : o[x] # Undef} |-> IF o[k] = NaN THEN Null ELSE o[k]]
JSONArr(rows) == [i \in DOMAIN rows |-> JSONObj(rows[i])]

\* Math.max(...vals) of a non-empty array
RECURSIVE MathMax(_)
MathMax(vals) ==
    IF Len(vals) = 1 THEN ToNumber(vals[1])
    ELSE Max2(vals[1], MathMax(Tail(vals)))

\* new Date().toISOString() at instant t; new Date(v).getTime() gives t back
Iso(t) == [iso |-> t]

(***************************************************************************)
(* Names                                                                   *)
(***************************************************************************)
ViewerName == <<"V", "i", "e", "w", "e", "r">>
SupervisorName == <<"S", "u", "p", "e", "r", "v", "i", "s", "o", "r">>
AgronomistName == <<"A", "g", "r", "o", "n", "o", "m", "i", "s", "t">>
GeneralManagerName ==
    <<"G", "e", "n", "e", "r", "a", "l", "M", "a", "n", "a", "g", "e", "r">>
ROLES ==
    [Viewer |-> Str(ViewerName), Supervisor |-> Str(SupervisorName),
     Agronomist |-> Str(AgronomistName), GeneralManager |-> Str(GeneralManagerName)]
\* Object.values(ROLES)
RoleValues == {ROLES[k] : k \in DOMAIN ROLES}

Clients == {"c1", "c2"}

(***************************************************************************)
(* State                                                                   *)
(***************************************************************************)
VARIABLES
    usersFile,      \* users.json
    payrollFile,    \* payroll.json
    agroFile,       \* agronomist_data.json
    farmFile,       \* farm_report.json
    session,        \* req.session.user of each client (Undef: none)
    uploads,        \* the temporary files multer has left in uploads/
    clock,          \* the instant new Date() reads
    last,           \* the request handled last and its response
    inFlight        \* per client, the add handler between its read and its write

vars ==
    <<usersFile, payrollFile, agroFile, farmFile, session, uploads, clock, last, inFlight>>

(***************************************************************************)
(* Persistence shim.  A file is missing, blank, unparsable, or holds a     *)
(* JSON array.                                                             *)
(***************************************************************************)
MissingFile == [kind |-> "missing"]
BlankFile == [kind |-> "blank"]
GarbageFile == [kind |-> "garbage"]
JsonFile(rows) == [kind |-> "json", data |-> rows]

\* A variant that also replaces a file it cannot use
ensureFileRepairing(f) == IF f.kind # "json" THEN JsonFile(<<>>) ELSE f

\* ensureFile(filePath): the file afterwards
ensureFile(f) == IF f = MissingFile THEN JsonFile(<<>>) ELSE f
\* readJSON(filePath): the value returned (the fallback is [])
readJSON(f) == IF ensureFile(f).kind = "json" THEN ensureFile(f).data ELSE <<>>
\* writeJSON(filePath, data): the file afterwards
writeJSON(data) == JsonFile(JSONArr(data))

(***************************************************************************)
(* Session gate                                                            *)
(***************************************************************************)
\* requireLoginApi: 401 without a session user, whatever the role
requireLoginApi(user, allowed) == IF Falsy(user) THEN 401 ELSE 200

\* requireAnyRoleApi(allowed): 401, 403, or 200 when next() is called
requireAnyRoleApi(user, allowed) ==
    IF Falsy(user) THEN 401
    ELSE IF Get(user, "role") \notin allowed THEN 403
    ELSE 200

GateMessage(status) == IF status = 401 THEN "Unauthorized" ELSE "Forbidden"

\* The response of a request the gate turned away: nothing else changes
Refused(op, c, body, status) ==
    /\ last' = [op |-> op, client |-> c, req |-> body, status |-> status,
                success |-> FALSE, message |-> GateMessage(status)]
    /\ UNCHANGED <<usersFile, payrollFile, agroFile, farmFile, session, uploads, clock>>

(***************************************************************************)
(* POST /register                                                          *)
(***************************************************************************)
\* A variant that looks the payroll number up and ignores the recorded role
PayrollMatchesNumberOnly(payroll, payrollNumber, role) ==
    FindIndex(payroll,
        LAMBDA p : ToStr(Get(p, "payrollNumber")) = ToStr(payrollNumber)) # 0

\* payrollRecord && payrollRecord.role === role, payrollRecord the first record
\* whose number, as a string, equals the requested one
PayrollMatches(payroll, payrollNumber, role) ==
    LET pIdx == FindIndex(payroll,
                    LAMBDA p : ToStr(Get(p, "payrollNumber")) = ToStr(payrollNumber))
    IN pIdx # 0 /\ StrictEq(Get(payroll[pIdx], "role"), role)

Register(c, body) ==
    LET username == Get(body, "username")
        password == Get(body, "password")
        role == Get(body, "role")
        payrollNumber == Get(body, "payrollNumber")
        users == readJSON(usersFile)
        payroll == readJSON(payrollFile)
        taken == FindIndex(users, LAMBDA u : StrictEq(Get(u, "username"), username))
        ids == [i \in DOMAIN users |-> Or(Get(users[i], "id"), Num(0))]
        newUser ==
            [id |-> IF Len(users) # 0 THEN Plus1(MathMax(ids)) ELSE Num(1),
             username |-> username, password |-> password, role |-> role,
             payrollNumber |-> payrollNumber, createdAt |-> Iso(clock)]
        reply(ok, msg) ==
            last' = [op |-> "register", client |-> c, req |-> body, status |-> 200,
                     success |-> ok, message |-> msg]
    IN
    /\ UNCHANGED <<agroFile, farmFile, session, uploads, clock>>
    /\ IF Falsy(username) \/ Falsy(password) \/ Falsy(role) \/ Falsy(payrollNumber)
       THEN reply(FALSE, "All fields are required")
            /\ UNCHANGED <<usersFile, payrollFile>>
       ELSE IF role \notin RoleValues
       THEN reply(FALSE, "Invalid role") /\ UNCHANGED <<usersFile, payrollFile>>
       ELSE IF taken # 0
       THEN reply(FALSE, "Username already exists")
            /\ usersFile' = ensureFile(usersFile)
            /\ UNCHANGED payrollFile
       ELSE IF ~PayrollMatches(payroll, payrollNumber, role)
       THEN reply(FALSE, "Payroll number mismatch")
            /\ usersFile' = ensureFile(usersFile)
            /\ payrollFile' = ensureFile(payrollFile)
       ELSE reply(TRUE, "")
            /\ usersFile' = writeJSON(Append(users, newUser))
            /\ payrollFile' = ensureFile(payrollFile)

(***************************************************************************)
(* POST /login, POST /logout                                               *)
(***************************************************************************)
Login(c, body) ==
    LET username == Get(body, "username")
        password == Get(body, "password")
        users == readJSON(usersFile)
        idx == FindIndex(users, LAMBDA u : StrictEq(Get(u, "username"), username)
                                          /\ StrictEq(Get(u, "password"), password))
    IN
    /\ usersFile' = ensureFile(usersFile)
    /\ UNCHANGED <<payrollFile, agroFile, farmFile, uploads, clock>>
    /\ IF idx = 0
       THEN /\ last' = [op |-> "login", client |-> c, req |-> body, status |-> 200,
                        success |-> FALSE, message |-> "Invalid credentials"]
            /\ UNCHANGED session
       ELSE /\ session' = [session EXCEPT ![c] =
                               [username |-> Get(users[idx], "username"),
                                role |-> Get(users[idx], "role")]]
            /\ last' = [op |-> "login", client |-> c, req |-> body, status |-> 200,
                        success |-> TRUE, message |-> ""]

Logout(c) ==
    /\ session' = [session EXCEPT ![c] = Undef]
    /\ last' = [op |-> "logout", client |-> c, req |-> EmptyObj, status |-> 200,
                success |-> TRUE, message |-> ""]
    /\ UNCHANGED <<usersFile, payrollFile, agroFile, farmFile, uploads, clock>>

(***************************************************************************)
(* Agronomy rows: POST /agro/add                                           *)
(***************************************************************************)
EmptyStr == Str(<<>>)
AgroWriters == {ROLES.Agronomist, ROLES.GeneralManager}
AgroRemarkers == {ROLES.Supervisor, ROLES.Agronomist, ROLES.GeneralManager}
AllRoles == {ROLES.Viewer, ROLES.Supervisor, ROLES.Agronomist, ROLES.GeneralManager}

\* rows.map(r => r.id || 0)
IdsOrZero(rows) == [i \in DOMAIN rows |-> Or(Get(rows[i], "id"), Num(0))]

\* rows.length ? Math.max(...rows.map(r => r.id || 0)) + 1 : 1
NextIdOrOne(rows) == IF Len(rows) # 0 THEN Plus1(MathMax(IdsOrZero(rows))) ELSE Num(1)

\* { id: <next>, ...req.body, supervisorRemarks: "" }
NewAgroRow(rows, body) ==
    Put(Spread([id |-> NextIdOrOne(rows)], body), "supervisorRemarks", EmptyStr)

AgroAdd(c, body) ==
    LET gate == requireAnyRoleApi(session[c], AgroWriters)
        rows == readJSON(agroFile)
        newRow == NewAgroRow(rows, body)
    IN IF gate # 200 THEN Refused("add", c, body, gate)
       ELSE /\ agroFile' = writeJSON(Append(rows, newRow))
            /\ last' = [op |-> "add", client |-> c, req |-> body, status |-> 200,
                        success |-> TRUE, message |-> "", row |-> newRow]
            /\ UNCHANGED <<usersFile, payrollFile, farmFile, session, uploads, clock>>

(***************************************************************************)
(* POST /agro/add as the event loop runs it: the read, then the write      *)
(***************************************************************************)
\* A variant scheduler that lets a handler start while another is between its
\* read and its write
CallStackAny == TRUE

\* The handler is one synchronous callback (readFileSync ... writeFileSync with
\* no await, timer or callback in between), so the event loop starts a handler
\* only when no other handler is between its read and its write
CallStackEmpty == \A d \in Clients : inFlight[d].phase # "read"

\* requireAnyRoleApi, then const rows = readJSON(AGRO_FILE)
AddRead(c, body) ==
    LET gate == requireAnyRoleApi(session[c], AgroWriters)
    IN /\ CallStackEmpty
       /\ IF gate # 200
          THEN /\ Refused("add", c, body, gate)
               /\ inFlight' = [inFlight EXCEPT ![c] = [phase |-> "responded", status |-> gate]]
          ELSE /\ agroFile' = ensureFile(agroFile)
               /\ inFlight' = [inFlight EXCEPT ![c] =
                                  [phase |-> "read", body |-> body,
                                   rows |-> readJSON(agroFile)]]
               /\ UNCHANGED <<usersFile, payrollFile, farmFile, session, uploads,
                              clock, last>>

\* newRow, rows.push(newRow), writeJSON(AGRO_FILE, rows), res.json(...)
AddWrite(c) ==
    LET rows == inFlight[c].rows
        body == inFlight[c].body
        newRow == NewAgroRow(rows, body)
    IN /\ inFlight[c].phase = "read"
       /\ agroFile' = writeJSON(Append(rows, newRow))
       /\ last' = [op |-> "add", client |-> c, req |-> body, status |-> 200,
                   success |-> TRUE, message |-> "", row |-> newRow]
       /\ inFlight' = [inFlight EXCEPT ![c] =
                          [phase |-> "responded", status |-> 200, row |-> newRow]]
       /\ UNCHANGED <<usersFile, payrollFile, farmFile, session, uploads, clock>>

(***************************************************************************)
(* POST /agro/save                                                         *)
(***************************************************************************)
\* r.id === row.id || (the five composite fields all strictly equal)
SaveExists(existingRows, row) ==
    \E i \in DOMAIN existingRows :
        \/ StrictEq(Get(existingRows[i], "id"), Get(row, "id"))
        \/ \A k \in {"farm", "gh", "area", "crop", "time"} :
               StrictEq(Get(existingRows[i], k), Get(row, k))

\* The forEach of the handler: [rows, added, duplicates] after the batch
RECURSIVE SaveEach(_, _, _, _)
SaveEach(existingRows, newRows, added, duplicates) ==
    IF newRows = <<>> THEN [rows |-> existingRows, added |-> added, duplicates |-> duplicates]
    ELSE LET row == IF Falsy(Get(Head(newRows), "id"))
                    THEN Put(Head(newRows), "id", NextIdOrOne(existingRows))
                    ELSE Head(newRows)
         IN IF SaveExists(existingRows, row)
            THEN SaveEach(existingRows, Tail(newRows), added, duplicates + 1)
            ELSE SaveEach(Append(existingRows, row), Tail(newRows), added + 1, duplicates)

\* A request body that is an array of rows, and one that is not an array
Arr(rows) == [array |-> rows]
NotArray == [notArray |-> TRUE]

AgroSave(c, newRows) ==
    LET gate == requireAnyRoleApi(session[c], AgroWriters)
        done == SaveEach(readJSON(agroFile), newRows.array, 0, 0)
    IN IF gate # 200 THEN Refused("save", c, newRows, gate)
       ELSE IF newRows = NotArray
       THEN /\ last' = [op |-> "save", client |-> c, req |-> newRows, status |-> 400,
                        success |-> FALSE, message |-> "Invalid data"]
            /\ UNCHANGED <<usersFile, payrollFile, agroFile, farmFile, session,
                           uploads, clock>>
       ELSE /\ agroFile' = writeJSON(done.rows)
            /\ last' = [op |-> "save", client |-> c, req |-> newRows, status |-> 200,
                        success |-> TRUE, message |-> "", added |-> done.added,
                        duplicates |-> done.duplicates]
            /\ UNCHANGED <<usersFile, payrollFile, farmFile, session, uploads, clock>>

(***************************************************************************)
(* POST /agro/bulk_set                                                     *)
(***************************************************************************)
\* existing.reduce((m, r) => Math.max(m, r.id || 0), 0)
RECURSIVE MaxIdFrom(_, _)
MaxIdFrom(rows, m) ==
    IF rows = <<>> THEN m
    ELSE MaxIdFrom(Tail(rows), Max2(m, Or(Get(Head(rows), "id"), Num(0))))
MaxId(rows) == MaxIdFrom(rows, Num(0))

\* A variant that defaults supervisorRemarks to "" rather than to the prior value
BulkMergedRowClearing(old, row) ==
    Put(Spread(old, row), "supervisorRemarks",
        Or(Get(row, "supervisorRemarks"), EmptyStr))

\* { ...merged[idx], ...row,
\*   supervisorRemarks: row.supervisorRemarks ?? merged[idx].supervisorRemarks ?? "" }
BulkMergedRow(old, row) ==
    Put(Spread(old, row), "supervisorRemarks",
        Coalesce(Get(row, "supervisorRemarks"),
                 Coalesce(Get(old, "supervisorRemarks"), EmptyStr)))

\* The forEach of the handler: merged after the batch
RECURSIVE BulkEach(_, _, _)
BulkEach(merged, newData, maxId) ==
    IF newData = <<>> THEN merged
    ELSE LET noId == Falsy(Get(Head(newData), "id"))
             nextMax == IF noId THEN Plus1(maxId) ELSE maxId
             row == IF noId THEN Put(Head(newData), "id", nextMax) ELSE Head(newData)
             idx == FindIndex(merged, LAMBDA r : StrictEq(Get(r, "id"), Get(row, "id")))
         IN IF idx # 0
            THEN BulkEach([merged EXCEPT ![idx] = BulkMergedRow(merged[idx], row)],
                          Tail(newData), nextMax)
            ELSE BulkEach(
                     Append(merged,
                            IF Falsy(Get(row, "supervisorRemarks"))
                            THEN Put(row, "supervisorRemarks", EmptyStr) ELSE row),
                     Tail(newData), nextMax)

AgroBulkSet(c, newData) ==
    LET gate == requireAnyRoleApi(session[c], AgroWriters)
        existing == readJSON(agroFile)
    IN IF gate # 200 THEN Refused("bulk_set", c, newData, gate)
       ELSE IF newData = NotArray
       THEN /\ last' = [op |-> "bulk_set", client |-> c, req |-> newData,
                        status |-> 400, success |-> FALSE, message |-> "Invalid data"]
            /\ UNCHANGED <<usersFile, payrollFile, agroFile, farmFile, session,
                           uploads, clock>>
       ELSE /\ agroFile' = writeJSON(BulkEach(existing, newData.array, MaxId(existing)))
            /\ last' = [op |-> "bulk_set", client |-> c, req |-> newData,
                        status |-> 200, success |-> TRUE, message |-> "",
                        count |-> Len(newData.array)]
            /\ UNCHANGED <<usersFile, payrollFile, farmFile, session, uploads, clock>>

(***************************************************************************)
(* POST /agro/supervisor-remarks                                           *)
(***************************************************************************)
\* A variant that takes the last row when none matches
RemarksIndexOrLast(rows, id) ==
    LET i == FindIndex(rows, LAMBDA r : StrictEq(Get(r, "id"), ToNumber(id)))
    IN IF i = 0 THEN Len(rows) ELSE i

\* rows.findIndex(r => r.id === Number(id)), 1-based, 0 for -1
RemarksIndex(rows, id) ==
    FindIndex(rows, LAMBDA r : StrictEq(Get(r, "id"), ToNumber(id)))

\* A variant that copies every field of the request body into the row
RemarkedRowMergingBody(row, body) ==
    Put(Spread(row, body), "supervisorRemarks", Or(Get(body, "supervisorRemarks"), EmptyStr))

\* rows[idx].supervisorRemarks = supervisorRemarks || ""
RemarkedRow(row, body) ==
    Put(row, "supervisorRemarks", Or(Get(body, "supervisorRemarks"), EmptyStr))

AgroSupervisorRemarks(c, body) ==
    LET gate == requireAnyRoleApi(session[c], AgroRemarkers)
        id == Get(body, "id")
        rows == readJSON(agroFile)
        idx == RemarksIndex(rows, id)
        reply(status, msg) ==
            last' = [op |-> "supervisor-remarks", client |-> c, req |-> body,
                     status |-> status, success |-> status = 200, message |-> msg]
    IN IF gate # 200 THEN Refused("supervisor-remarks", c, body, gate)
       ELSE /\ UNCHANGED <<usersFile, payrollFile, farmFile, session, uploads, clock>>
            /\ IF Falsy(id) THEN reply(400, "Missing id") /\ UNCHANGED agroFile
               ELSE IF idx = 0
               THEN reply(404, "Not found") /\ agroFile' = ensureFile(agroFile)
               ELSE /\ reply(200, "")
                    /\ agroFile' =
                         writeJSON([rows EXCEPT ![idx] = RemarkedRow(rows[idx], body)])

(***************************************************************************)
(* GET /agro/export                                                        *)
(***************************************************************************)
\* A worksheet: the header keys, and per data row the cells that hold a value.
\* json_to_sheet writes no cell for undefined or null.
JsonToSheet(rows) ==
    [keys |-> UNION {DOMAIN rows[i] : i \in DOMAIN rows},
     cells |-> [i \in DOMAIN rows |->
                   [k \in {x \in DOMAIN rows[i] : ~Nullish(rows[i][x])} |-> rows[i][k]]]]

\* sheet_to_json(ws, { defval: "" }): every header key, "" where the cell is
\* empty; a row with no cell at all is skipped
SheetToJson(sheet) ==
    LET full(cells) == [k \in sheet.keys |-> IF k \in DOMAIN cells THEN cells[k] ELSE EmptyStr]
        kept == SelectSeq(sheet.cells, LAMBDA cells : DOMAIN cells # {})
    IN [i \in DOMAIN kept |-> full(kept[i])]

AgroExport(c) ==
    LET gate == requireAnyRoleApi(session[c], AllRoles)
    IN IF gate # 200 THEN Refused("export", c, EmptyObj, gate)
       ELSE /\ agroFile' = ensureFile(agroFile)
            /\ last' = [op |-> "export", client |-> c, req |-> EmptyObj, status |-> 200,
                        success |-> TRUE, message |-> "",
                        sheet |-> JsonToSheet(readJSON(agroFile))]
            /\ UNCHANGED <<usersFile, payrollFile, farmFile, session, uploads, clock>>

(***************************************************************************)
(* POST /agro/import                                                       *)
(***************************************************************************)
\* The column names read for each field the import keeps, in the order tried
ImportAliases ==
    [farm |-> <<"farm", "Farm">>, gh |-> <<"gh", "GH">>, area |-> <<"area", "AREA">>,
     crop |-> <<"crop", "CROP">>, variety |-> <<"variety", "VARIETY">>,
     mode |-> <<"mode", "MODE">>, method |-> <<"method", "METHOD">>,
     time |-> <<"time", "TIME">>,
     mon |-> <<"mon", "Mon", "Monday">>, tue |-> <<"tue", "Tue", "Tuesday">>,
     wed |-> <<"wed", "Wed", "Wednesday">>, thu |-> <<"thu", "Thu", "Thursday">>,
     fri |-> <<"fri", "Fri", "Friday">>, sat |-> <<"sat", "Sat", "Saturday">>,
     sun |-> <<"sun", "Sun", "Sunday">>,
     target |-> <<"target", "Target">>,
     justification |-> <<"justification", "Justification">>,
     morning |-> <<"morning", "Morning">>, evening |-> <<"evening", "Evening">>,
     preparedBy |-> <<"preparedBy", "Prepared By">>,
     agronomistRemarks |-> <<"agronomistRemarks", "Agronomist Remarks">>]

\* row.a || row.b || ... || ""
RECURSIVE OrChain(_, _)
OrChain(row, names) ==
    IF names = <<>> THEN EmptyStr ELSE Or(Get(row, Head(names)), OrChain(row, Tail(names)))

\* A variant that takes supervisorRemarks from the spreadsheet row first
ImportedRowSheetRemarks(existingRows, row, id) ==
    [k \in DOMAIN ImportAliases \cup {"id", "supervisorRemarks"} |->
        IF k = "id" THEN id
        ELSE IF k = "supervisorRemarks"
        THEN Or(Get(row, "supervisorRemarks"), EmptyStr)
        ELSE OrChain(row, ImportAliases[k])]

\* The object importedRaw.map builds for one spreadsheet row; id is
\* row.id || ++maxId
ImportedRow(existingRows, row, id) ==
    LET found == IF Truthy(Get(row, "id"))
                 THEN FindIndex(existingRows,
                                LAMBDA r : StrictEq(Get(r, "id"), Get(row, "id")))
                 ELSE 0
    IN [k \in DOMAIN ImportAliases \cup {"id", "supervisorRemarks"} |->
           IF k = "id" THEN id
           ELSE IF k = "supervisorRemarks"
           THEN IF found # 0 THEN Get(existingRows[found], "supervisorRemarks")
                ELSE Or(Get(row, "supervisorRemarks"), EmptyStr)
           ELSE OrChain(row, ImportAliases[k])]

\* importedRaw.map(...)
RECURSIVE ImportMap(_, _, _)
ImportMap(existingRows, importedRaw, maxId) ==
    IF importedRaw = <<>> THEN <<>>
    ELSE LET row == Head(importedRaw)
             noId == Falsy(Get(row, "id"))
             nextMax == IF noId THEN Plus1(maxId) ELSE maxId
         IN <<ImportedRow(existingRows, row, IF noId THEN nextMax ELSE Get(row, "id"))>>
            \o ImportMap(existingRows, Tail(importedRaw), nextMax)

\* importedData.forEach: replace the row of the same id, else push
RECURSIVE ImportMerge(_, _)
ImportMerge(merged, importedData) ==
    IF importedData = <<>> THEN merged
    ELSE LET r == Head(importedData)
             idx == FindIndex(merged, LAMBDA e : StrictEq(Get(e, "id"), Get(r, "id")))
         IN ImportMerge(IF idx # 0 THEN [merged EXCEPT ![idx] = r] ELSE Append(merged, r),
                        Tail(importedData))

\* An upload is missing (NoFile), unreadable as a workbook (CorruptFile), or a sheet
NoFile == [noFile |-> TRUE]
CorruptFile == [corrupt |-> TRUE]

AgroImport(c, file) ==
    LET gate == requireAnyRoleApi(session[c], AgroWriters)
        existingRows == readJSON(agroFile)
        importedData == ImportMap(existingRows, SheetToJson(file), MaxId(existingRows))
    IN IF gate # 200 THEN Refused("import", c, file, gate)
       ELSE IF file = NoFile
       THEN /\ last' = [op |-> "import", client |-> c, req |-> file, status |-> 400,
                        success |-> FALSE, message |-> "No file uploaded"]
            /\ UNCHANGED <<usersFile, payrollFile, agroFile, farmFile, session,
                           uploads, clock>>
       ELSE IF file = CorruptFile
       THEN /\ last' = [op |-> "import", client |-> c, req |-> file, status |-> 500,
                        success |-> FALSE, message |-> "Import failed"]
            /\ uploads' = uploads + 1
            /\ UNCHANGED <<usersFile, payrollFile, agroFile, farmFile, session, clock>>
       ELSE /\ agroFile' = writeJSON(ImportMerge(existingRows, importedData))
            /\ last' = [op |-> "import", client |-> c, req |-> file, status |-> 200,
                        success |-> TRUE, message |-> "", count |-> Len(importedData)]
            /\ UNCHANGED <<usersFile, payrollFile, farmFile, session, uploads, clock>>

(***************************************************************************)
(* POST /farmreport                                                        *)
(***************************************************************************)
\* A variant that does not require the greenhouse
FarmRequiredMissingNoGreenhouse(body) ==
    Falsy(Get(body, "weekRange")) \/ Falsy(Get(body, "farm"))

\* !weekRange || !farm || !greenhouse
FarmRequiredMissing(body) ==
    Falsy(Get(body, "weekRange")) \/ Falsy(Get(body, "farm"))
        \/ Falsy(Get(body, "greenhouse"))

\* String(v || "")
StringOrEmpty(v) == Str(ToStr(Or(v, EmptyStr)))

\* The row pushed by the handler
NewFarmRow(rows, body, now) ==
    [id |-> Plus1(MaxId(rows)),
     year |-> StringOrEmpty(Get(body, "year")),
     weekRange |-> Str(Trim(ToStr(Get(body, "weekRange")))),
     farm |-> StringOrEmpty(Get(body, "farm")),
     greenhouse |-> StringOrEmpty(Get(body, "greenhouse")),
     bed |-> StringOrEmpty(Get(body, "bed")),
     crop |-> StringOrEmpty(Get(body, "crop")),
     variety |-> StringOrEmpty(Get(body, "variety")),
     pest |-> StringOrEmpty(Get(body, "pest")),
     disease |-> StringOrEmpty(Get(body, "disease")),
     pestRate |-> Or(ToNumber(Get(body, "pestRate")), Num(0)),
     diseaseRate |-> Or(ToNumber(Get(body, "diseaseRate")), Num(0)),
     createdAt |-> Iso(now)]

FarmAppend(c, body) ==
    LET gate == requireAnyRoleApi(session[c], AgroWriters)
        rows == readJSON(farmFile)
        newRow == NewFarmRow(rows, body, clock)
    IN IF gate # 200 THEN Refused("farm-append", c, body, gate)
       ELSE IF FarmRequiredMissing(body)
       THEN /\ last' = [op |-> "farm-append", client |-> c, req |-> body, status |-> 400,
                        success |-> FALSE,
                        message |-> "weekRange, farm, greenhouse required"]
            /\ UNCHANGED <<usersFile, payrollFile, agroFile, farmFile, session,
                           uploads, clock>>
       ELSE /\ farmFile' = writeJSON(Append(rows, newRow))
            /\ last' = [op |-> "farm-append", client |-> c, req |-> body, status |-> 200,
                        success |-> TRUE, message |-> "", id |-> Get(newRow, "id")]
            /\ UNCHANGED <<usersFile, payrollFile, agroFile, session, uploads, clock>>

(***************************************************************************)
(* parseWeekRange, filterFarmRows, GET /farmreport/search                  *)
(***************************************************************************)
\* parseWeekRange(weekRangeStr): [start, end], numbers or NaN
parseWeekRange(weekRangeStr) ==
    LET s == Trim(ToStr(Or(weekRangeStr, EmptyStr)))
        parts == Split(s, "-")
        start == ParseIntStr(parts[1])
        end == ParseIntStr(parts[2])
        single == ParseIntStr(s)
    IN IF Len(parts) = 2 /\ start # NaN /\ end # NaN THEN [start |-> start, end |-> end]
       ELSE IF single # NaN THEN [start |-> single, end |-> single]
       ELSE [start |-> NaN, end |-> NaN]

\* a < b and a > b on numbers: false when either is NaN
Less(a, b) == a # NaN /\ b # NaN /\ a.num < b.num
Greater(a, b) == Less(b, a)

\* v !== undefined && v !== "" ? parseInt(v, 10) : null
QueryInt(v) == IF v # Undef /\ v # EmptyStr THEN ParseInt(v) ELSE Null
\* v !== undefined && v !== "" ? Number(v) : null
QueryNumber(v) == IF v # Undef /\ v # EmptyStr THEN ToNumber(v) ELSE Null

\* A variant of the week test that keeps every row whose range meets the interval
WeekPassesOverlap(r, wf, wt) ==
    LET range == parseWeekRange(Get(r, "weekRange"))
        s == IF range.start = NaN THEN Null ELSE range.start
        e == IF range.end = NaN THEN s ELSE range.end
    IN IF wf = Null /\ wt = Null THEN TRUE
       ELSE IF s = Null THEN FALSE
       ELSE IF wf # Null /\ Less(e, wf) THEN FALSE
       ELSE IF wt # Null /\ Greater(s, wt) THEN FALSE
       ELSE TRUE

\* The week test of the filter callback (lines 959-967): TRUE when the row stays
WeekPasses(r, wf, wt) ==
    LET range == parseWeekRange(Get(r, "weekRange"))
        s == IF range.start = NaN THEN Null ELSE range.start
        e == IF range.end = NaN THEN s ELSE range.end
    IN IF wf = Null /\ wt = Null THEN TRUE
       ELSE IF s = Null THEN FALSE
       ELSE IF wf # Null /\ Less(s, wf) THEN FALSE
       ELSE IF wt # Null /\ Greater(e, wt) THEN FALSE
       ELSE TRUE

\* q && String(r.k || "").toLowerCase() !== String(q).toLowerCase(): the row is dropped
TextDrops(r, k, q) ==
    Truthy(q) /\ ToLowerCase(ToStr(Or(Get(r, k), EmptyStr))) # ToLowerCase(ToStr(q))

\* The filter callback: TRUE when the row stays
FarmRowPasses(r, query) ==
    LET wf == QueryInt(Get(query, "weekFrom"))
        wt == QueryInt(Get(query, "weekTo"))
        pMin == QueryNumber(Get(query, "pestRateMin"))
        pMax == QueryNumber(Get(query, "pestRateMax"))
        dMin == QueryNumber(Get(query, "diseaseRateMin"))
        dMax == QueryNumber(Get(query, "diseaseRateMax"))
        pr == Or(ToNumber(Get(r, "pestRate")), Num(0))
        dr == Or(ToNumber(Get(r, "diseaseRate")), Num(0))
    IN /\ ~TextDrops(r, "year", Get(query, "year"))
       /\ WeekPasses(r, wf, wt)
       /\ \A k \in {"farm", "greenhouse", "bed", "crop", "variety", "pest", "disease"} :
             ~TextDrops(r, k, Get(query, k))
       /\ ~(pMin # Null /\ Less(pr, pMin))
       /\ ~(pMax # Null /\ Greater(pr, pMax))
       /\ ~(dMin # Null /\ Less(dr, dMin))
       /\ ~(dMax # Null /\ Greater(dr, dMax))

\* a.createdAt ? new Date(a.createdAt).getTime() : 0, createdAt an ISO instant
CreatedTime(r) == IF Truthy(Get(r, "createdAt")) THEN Get(r, "createdAt").iso ELSE 0

\* The comparator of filtered.sort: negative when a comes first
NewestFirst(a, b) ==
    IF CreatedTime(a) # CreatedTime(b) THEN CreatedTime(b) - CreatedTime(a)
    ELSE Or(Get(b, "id"), Num(0)).num - Or(Get(a, "id"), Num(0)).num

\* filtered.sort(comparator): Array.prototype.sort is stable
RECURSIVE InsertNewestFirst(_, _)
InsertNewestFirst(sorted, x) ==
    IF sorted = <<>> THEN <<x>>
    ELSE IF NewestFirst(sorted[Len(sorted)], x) <= 0 THEN Append(sorted, x)
    ELSE Append(InsertNewestFirst(SubSeq(sorted, 1, Len(sorted) - 1), x),
                sorted[Len(sorted)])
RECURSIVE SortNewestFirst(_, _)
SortNewestFirst(sorted, rest) ==
    IF rest = <<>> THEN sorted
    ELSE SortNewestFirst(InsertNewestFirst(sorted, Head(rest)), Tail(rest))

\* filterFarmRows(query), on the rows read from the file
filterFarmRows(rows, query) ==
    SortNewestFirst(<<>>, SelectSeq(rows, LAMBDA r : FarmRowPasses(r, query)))

FarmSearch(c, query) ==
    LET gate == requireAnyRoleApi(session[c], AllRoles)
    IN IF gate # 200 THEN Refused("farm-search", c, query, gate)
       ELSE /\ farmFile' = ensureFile(farmFile)
            /\ last' = [op |-> "farm-search", client |-> c, req |-> query, status |-> 200,
                        success |-> TRUE, message |-> "",
                        result |-> filterFarmRows(readJSON(farmFile), query)]
            /\ UNCHANGED <<usersFile, payrollFile, agroFile, session, uploads, clock>>

(***************************************************************************)
(* GET /farmreport/charts                                                  *)
(***************************************************************************)
\* A variant that hands every query parameter to the filter
AllFilters(query) == query

\* { year, farm, greenhouse, pest, disease } taken from req.query
ChartFilters(query) ==
    [k \in {"year", "farm", "greenhouse", "pest", "disease"} \cap DOMAIN query |-> query[k]]

\* parseWeekRange(r.weekRange).start || 0
WeekStartOrZero(r) == Or(parseWeekRange(Get(r, "weekRange")).start, Num(0)).num

\* filtered.sort((a, b) => aW - bW): stable, ascending by week start
RECURSIVE InsertByWeek(_, _)
InsertByWeek(sorted, x) ==
    IF sorted = <<>> THEN <<x>>
    ELSE IF WeekStartOrZero(sorted[Len(sorted)]) - WeekStartOrZero(x) <= 0
    THEN Append(sorted, x)
    ELSE Append(InsertByWeek(SubSeq(sorted, 1, Len(sorted) - 1), x), sorted[Len(sorted)])
RECURSIVE SortByWeek(_, _)
SortByWeek(sorted, rest) ==
    IF rest = <<>> THEN sorted
    ELSE SortByWeek(InsertByWeek(sorted, Head(rest)), Tail(rest))

FarmCharts(c, query) ==
    LET gate == requireAnyRoleApi(session[c], AllRoles)
        filtered == filterFarmRows(readJSON(farmFile), ChartFilters(query))
    IN IF gate # 200 THEN Refused("farm-charts", c, query, gate)
       ELSE /\ farmFile' = ensureFile(farmFile)
            /\ last' = [op |-> "farm-charts", client |-> c, req |-> query, status |-> 200,
                        success |-> TRUE, message |-> "",
                        result |-> SortByWeek(<<>>, filtered)]
            /\ UNCHANGED <<usersFile, payrollFile, agroFile, session, uploads, clock>>

(***************************************************************************)
(* ensureCreatedAtForFarmReport and the app.listen callback                *)
(***************************************************************************)
\* A variant that stamps every row, stamped before or not
StampEveryRow(rows, now) == [i \in DOMAIN rows |-> Put(rows[i], "createdAt", Iso(now))]

\* for (const r of rows) if (!r.createdAt) r.createdAt = new Date().toISOString()
StampRows(rows, now) ==
    [i \in DOMAIN rows |->
        IF Falsy(Get(rows[i], "createdAt")) THEN Put(rows[i], "createdAt", Iso(now))
        ELSE rows[i]]

\* ensureCreatedAtForFarmReport(): the file afterwards
ensureCreatedAtForFarmReport(f, now) ==
    LET rows == readJSON(f)
        changed == \E i \in DOMAIN rows : Falsy(Get(rows[i], "createdAt"))
    IN IF changed THEN writeJSON(StampRows(rows, now)) ELSE ensureFile(f)

\* The process starts: the session store is empty, then app.listen's callback
Startup ==
    /\ usersFile' = ensureFile(usersFile)
    /\ payrollFile' = ensureFile(payrollFile)
    /\ agroFile' = ensureFile(agroFile)
    /\ farmFile' = ensureCreatedAtForFarmReport(ensureFile(farmFile), clock)
    /\ session' = [c \in Clients |-> Undef]
    /\ last' = [op |-> "startup", client |-> "c1", req |-> EmptyObj, status |-> 0,
                success |-> TRUE, message |-> ""]
    /\ UNCHANGED <<uploads, clock>>

(***************************************************************************)
(* Request inputs                                                          *)
(***************************************************************************)
NameA == Str(<<"a">>)
NameB == Str(<<"b">>)
PassP == Str(<<"p">>)
PassQ == Str(<<"q">>)
AdminRole == Str(<<"A", "d", "m", "i", "n">>)

\* payroll.json, the reference table the server only reads
PayrollTable ==
    << [payrollNumber |-> Num(1), role |-> ROLES.Agronomist],
       [payrollNumber |-> Str(<<"2">>), role |-> ROLES.Supervisor],
       [payrollNumber |-> Num(3), role |-> ROLES.Viewer],
       [payrollNumber |-> Num(4), role |-> ROLES.GeneralManager] >>

RegisterBodies ==
    { [username |-> u, password |-> PassP, role |-> r, payrollNumber |-> n] :
        u \in {NameA, NameB},
        r \in {AdminRole, ROLES.Viewer, ROLES.Supervisor, ROLES.Agronomist},
        n \in {Num(1), Num(2), Str(<<"3">>), Num(9)} }
    \cup
    { [password |-> PassP, role |-> ROLES.Agronomist, payrollNumber |-> Num(1)],
      [username |-> NameA, role |-> ROLES.Agronomist, payrollNumber |-> Num(1)],
      [username |-> NameA, password |-> PassP, payrollNumber |-> Num(1)],
      [username |-> NameA, password |-> PassP, role |-> ROLES.Viewer],
      [username |-> NameB, password |-> PassP, role |-> ROLES.Viewer,
       payrollNumber |-> Num(0)],
      [username |-> NameB, password |-> Str(<<>>), role |-> AdminRole,
       payrollNumber |-> Num(9)] }

LoginBodies ==
    { JSONObj([username |-> u, password |-> p]) :
        u \in {Undef, NameA, NameB}, p \in {PassP, PassQ} }

\* No handler of the client is on the call stack
Idle == [phase |-> "idle"]

NoRequest ==
    [op |-> "none", client |-> "c1", req |-> EmptyObj, status |-> 0,
     success |-> FALSE, message |-> ""]

Init ==
    /\ usersFile = JsonFile(<<>>)
    /\ payrollFile = JsonFile(PayrollTable)
    /\ agroFile = JsonFile(<<>>)
    /\ farmFile = JsonFile(<<>>)
    /\ session = [c \in Clients |-> Undef]
    /\ uploads = 0
    /\ clock = 0
    /\ last = NoRequest
    /\ inFlight = [c \in Clients |-> Idle]

(***************************************************************************)
(* Accounts: registration, login and logout                                *)
(***************************************************************************)
NextAuth ==
    /\ UNCHANGED inFlight
    /\ \E c \in Clients :
           \/ \E body \in RegisterBodies : Register(c, body)
           \/ \E body \in LoginBodies : Login(c, body)
           \/ Logout(c)

SpecAuth == Init /\ [][NextAuth]_vars

(***************************************************************************)
(* The server with two accounts registered and signed in: client c1 as an  *)
(* Agronomist, client c2 as a Supervisor                                   *)
(***************************************************************************)
SignedInUsers ==
    << [id |-> Num(1), username |-> NameA, password |-> PassP,
        role |-> ROLES.Agronomist, payrollNumber |-> Num(1), createdAt |-> Iso(0)],
       [id |-> Num(2), username |-> NameB, password |-> PassP,
        role |-> ROLES.Supervisor, payrollNumber |-> Num(2), createdAt |-> Iso(0)] >>

InitSignedIn ==
    /\ usersFile = JsonFile(SignedInUsers)
    /\ payrollFile = JsonFile(PayrollTable)
    /\ agroFile = JsonFile(<<>>)
    /\ farmFile = JsonFile(<<>>)
    /\ session = [c \in Clients |->
                    IF c = "c1" THEN [username |-> NameA, role |-> ROLES.Agronomist]
                    ELSE [username |-> NameB, role |-> ROLES.Supervisor]]
    /\ uploads = 0
    /\ clock = 0
    /\ last = NoRequest
    /\ inFlight = [c \in Clients |-> Idle]

\* Bounds of the model: rows a record file may hold
MaxAgroRows == 2
AgroFits == Len(readJSON(agroFile')) <= MaxAgroRows

FarmA == Str(<<"A">>)
FarmB == Str(<<"B">>)
RemarkX == Str(<<"x">>)
RemarkY == Str(<<"y">>)

(***************************************************************************)
(* Sequences of add calls                                                  *)
(***************************************************************************)
AddBodies ==
    { EmptyObj, [farm |-> FarmA], [farm |-> FarmB, supervisorRemarks |-> RemarkX],
      [id |-> Num(1), farm |-> FarmB], [id |-> Num(5)], [id |-> Num(0)] }

\* Bound of the model: add calls in a run
MaxAdds == 3

NextAdd ==
    /\ UNCHANGED inFlight
    /\ \E c \in Clients : \E body \in AddBodies :
           Len(readJSON(agroFile)) < MaxAdds /\ AgroAdd(c, body)

SpecAdd == InitSignedIn /\ [][NextAdd]_vars

(***************************************************************************)
(* Supervisor remarks under add, save, patch, bulk_set and import          *)
(***************************************************************************)
RemarkAddBodies == { [farm |-> FarmA] }
\* Saved rows are stored as sent: this one carries no supervisorRemarks
RemarkSaveBatches == { Arr(<<[id |-> Num(1), farm |-> FarmB]>>) }
RemarkPatchBodies ==
    { [id |-> Num(1), supervisorRemarks |-> RemarkX],
      [id |-> Str(<<"2">>), supervisorRemarks |-> RemarkX],
      [id |-> Num(9), supervisorRemarks |-> RemarkX],
      [id |-> Num(0), supervisorRemarks |-> RemarkX],
      [supervisorRemarks |-> RemarkX] }
RemarkBulkBatches ==
    { NotArray,
      Arr(<<[id |-> Num(1), farm |-> FarmB]>>),
      Arr(<<[id |-> Num(1), supervisorRemarks |-> RemarkY]>>),
      Arr(<<[id |-> Num(1), supervisorRemarks |-> RemarkY], [id |-> Num(1)]>>),
      Arr(<<[farm |-> FarmB]>>) }
RemarkImportFiles ==
    { NoFile, CorruptFile,
      [keys |-> {"id", "farm", "supervisorRemarks"},
       cells |-> <<[id |-> Num(1), farm |-> FarmB, supervisorRemarks |-> RemarkY]>>],
      [keys |-> {"id", "farm", "supervisorRemarks"},
       cells |-> <<[id |-> Num(2), farm |-> FarmB]>>],
      [keys |-> {"Farm"}, cells |-> <<[Farm |-> FarmB]>>] }

\* Bound of the model: temporary files left behind
MaxUploads == 1
NextRemarks ==
    /\ UNCHANGED inFlight
    /\ \E c \in Clients :
           \/ \E body \in RemarkAddBodies : AgroAdd(c, body) /\ AgroFits
           \/ \E rows \in RemarkSaveBatches : AgroSave(c, rows) /\ AgroFits
           \/ \E body \in RemarkPatchBodies : AgroSupervisorRemarks(c, body)
           \/ \E rows \in RemarkBulkBatches : AgroBulkSet(c, rows) /\ AgroFits
           \/ \E file \in RemarkImportFiles :
                 AgroImport(c, file) /\ AgroFits /\ uploads' <= MaxUploads

SpecRemarks == InitSignedIn /\ [][NextRemarks]_vars

(***************************************************************************)
(* Farm reports: append and search                                         *)
(***************************************************************************)
House1 == Str(<<"G", "1">>)
Week(a, b, c) == Str(<<a, b, c>>)
FarmWeeks ==
    { Week("1", "-", "3"), Week("4", "-", "4"), Week("6", "-", "8"),
      Str(<<"5">>), Str(<<"x">>) }
FarmBodies ==
    { [weekRange |-> w, farm |-> FarmA, greenhouse |-> House1] : w \in FarmWeeks }
    \cup
    { [farm |-> FarmA, greenhouse |-> House1],
      [weekRange |-> Week("1", "-", "3"), greenhouse |-> House1],
      [weekRange |-> Week("1", "-", "3"), farm |-> FarmA],
      [weekRange |-> Week("1", "-", "3"), farm |-> FarmA, greenhouse |-> EmptyStr],
      [weekRange |-> EmptyStr, farm |-> FarmA, greenhouse |-> House1] }
FarmQueries ==
    { JSONObj([weekFrom |-> f, weekTo |-> t]) :
        f \in {Undef, Str(<<"2">>), Str(<<"4">>)},
        t \in {Undef, Str(<<"5">>)} }
    \cup { [weekFrom |-> Str(<<"4">>), weekTo |-> EmptyStr] }

\* Bound of the model: farm-report rows stored
MaxFarmRows == 3

NextFarm ==
    /\ UNCHANGED inFlight
    /\ \E c \in Clients :
           \/ \E body \in FarmBodies :
                 FarmAppend(c, body) /\ Len(readJSON(farmFile')) <= MaxFarmRows
           \/ \E query \in FarmQueries : FarmSearch(c, query)

SpecFarm == InitSignedIn /\ [][NextFarm]_vars

(***************************************************************************)
(* Agronomy: export, then import of the exported workbook                  *)
(***************************************************************************)
RoundAddBodies ==
    { [farm |-> FarmA],
      [farm |-> FarmB, area |-> Num(3)],
      [farm |-> FarmA, area |-> Num(0)],
      [farm |-> FarmB, notes |-> RemarkX] }

NextRound ==
    /\ UNCHANGED inFlight
    /\ \E c \in Clients :
           \/ \E body \in RoundAddBodies : AgroAdd(c, body) /\ AgroFits
           \/ AgroExport(c)
           \/ /\ last.op = "export" /\ last.status = 200
              /\ AgroImport(c, last.sheet)
              /\ AgroFits

SpecRound == InitSignedIn /\ [][NextRound]_vars

(***************************************************************************)
(* Accounts and the gated routes that write                                *)
(***************************************************************************)
GateRegisterBodies ==
    { [username |-> NameA, password |-> PassP, role |-> ROLES.Agronomist,
       payrollNumber |-> Num(1)],
      [username |-> NameA, password |-> PassP, role |-> ROLES.Viewer,
       payrollNumber |-> Num(3)],
      [username |-> NameB, password |-> PassP, role |-> ROLES.Supervisor,
       payrollNumber |-> Num(2)],
      [username |-> NameB, password |-> PassP, role |-> ROLES.GeneralManager,
       payrollNumber |-> Num(4)] }
GateLoginBodies == { [username |-> u, password |-> PassP] : u \in {NameA, NameB} }
GateRow == [id |-> Num(1), farm |-> FarmA]
GateSheet == [keys |-> {"id", "farm"}, cells |-> <<GateRow>>]
GateFarmBody == [weekRange |-> Str(<<"5">>), farm |-> FarmA, greenhouse |-> House1]

\* Bound of the model: rows stored in each file
MaxGateRows == 1
GateFits ==
    /\ Len(readJSON(agroFile')) <= MaxGateRows
    /\ Len(readJSON(farmFile')) <= MaxGateRows

NextGate ==
    /\ UNCHANGED inFlight
    /\ \E c \in Clients :
           \/ \E body \in GateRegisterBodies : Register(c, body)
           \/ \E body \in GateLoginBodies : Login(c, body)
           \/ Logout(c)
           \/ AgroAdd(c, [farm |-> FarmA]) /\ GateFits
           \/ AgroSave(c, Arr(<<GateRow>>)) /\ GateFits
           \/ AgroBulkSet(c, Arr(<<GateRow>>)) /\ GateFits
           \/ AgroImport(c, GateSheet) /\ GateFits
           \/ AgroSupervisorRemarks(c, [id |-> Num(1), supervisorRemarks |-> RemarkX])
           \/ FarmAppend(c, GateFarmBody) /\ GateFits

SpecGate == Init /\ [][NextGate]_vars

(***************************************************************************)
(* One Agronomist, signed in from two browsers, adding rows from both      *)
(***************************************************************************)
InitRace ==
    /\ usersFile = JsonFile(SignedInUsers)
    /\ payrollFile = JsonFile(PayrollTable)
    /\ agroFile = JsonFile(<<>>)
    /\ farmFile = JsonFile(<<>>)
    /\ session = [c \in Clients |-> [username |-> NameA, role |-> ROLES.Agronomist]]
    /\ uploads = 0
    /\ clock = 0
    /\ last = NoRequest
    /\ inFlight = [c \in Clients |-> Idle]

RaceBodies == { [farm |-> FarmA], [farm |-> FarmB] }

NextRace ==
    \E c \in Clients :
        \/ \E body \in RaceBodies :
              /\ Len(readJSON(agroFile)) < MaxAdds
              /\ inFlight[c].phase # "read"
              /\ AddRead(c, body)
        \/ AddWrite(c)
        \/ CallStackEmpty /\ AgroExport(c) /\ UNCHANGED inFlight

\* Requests keep arriving, and a handler that has read goes on to its write: it
\* is the same synchronous callback
SpecRace ==
    /\ InitRace
    /\ [][NextRace]_vars
    /\ WF_vars(NextRace)
    /\ \A c \in Clients : WF_vars(AddWrite(c))

(***************************************************************************)
(* The server started on the files it finds, written at an earlier instant, *)
(* and restarted                                                           *)
(***************************************************************************)
\* Rows a farm_report.json of an earlier version holds: no createdAt, or a blank one
LegacyRow ==
    [id |-> Num(7), weekRange |-> Week("1", "-", "3"), farm |-> FarmA,
     greenhouse |-> House1]
BlankStampRow ==
    [id |-> Num(8), weekRange |-> Week("4", "-", "4"), farm |-> FarmB,
     greenhouse |-> House1, createdAt |-> EmptyStr]
StampedRow ==
    [id |-> Num(2), weekRange |-> Week("6", "-", "8"), farm |-> FarmA,
     greenhouse |-> House1, createdAt |-> Iso(0)]
FilesFound ==
    { MissingFile, BlankFile, GarbageFile, JsonFile(<<>>), JsonFile(<<StampedRow>>),
      JsonFile(<<LegacyRow>>), JsonFile(<<StampedRow, BlankStampRow>>) }

InitStart ==
    /\ usersFile = JsonFile(SignedInUsers)
    /\ payrollFile = JsonFile(PayrollTable)
    /\ agroFile \in {MissingFile, JsonFile(<<>>)}
    /\ farmFile \in FilesFound
    /\ session = [c \in Clients |-> Undef]
    /\ uploads = 0
    /\ clock = 1
    /\ last = NoRequest
    /\ inFlight = [c \in Clients |-> Idle]

\* app.listen's callback has run
Listening == last.op # "none"
StartFarmBodies ==
    { [weekRange |-> Str(<<"5">>), farm |-> FarmA, greenhouse |-> House1],
      [weekRange |-> Week("1", "-", "3"), farm |-> FarmB, greenhouse |-> House1],
      [weekRange |-> Week("1", "-", "3"), farm |-> FarmB] }
StartQueries == { EmptyObj, [farm |-> FarmA] }

\* Bound of the model: farm-report rows stored, the rows found included
MaxStartRows == 3
NextStart ==
    /\ UNCHANGED inFlight
    /\ \/ Startup
       \/ /\ Listening
          /\ \E c \in Clients :
                \/ \E body \in GateLoginBodies : Login(c, body)
                \/ \E body \in StartFarmBodies :
                      /\ Len(readJSON(farmFile)) < MaxStartRows
                      /\ FarmAppend(c, body)
                \/ \E query \in StartQueries : FarmSearch(c, query)

SpecStart == InitStart /\ [][NextStart]_vars

(***************************************************************************)
(* Registrations, the username sent as a string or as an array             *)
(***************************************************************************)
UserRegisterBodies ==
    { [username |-> u, password |-> PassP, role |-> r.role, payrollNumber |-> r.n] :
        u \in {NameA, NameB, ArrayOf(<<NameA>>)},
        r \in { [role |-> ROLES.Agronomist, n |-> Num(1)],
                [role |-> ROLES.Viewer, n |-> Num(3)],
                [role |-> ROLES.Viewer, n |-> Num(1)] } }

UserLoginBodies ==
    { [username |-> u, password |-> PassP] : u \in {NameA, ArrayOf(<<NameA>>)} }

\* Bound of the model: users stored
MaxUsers == 3
NextUsers ==
    /\ UNCHANGED inFlight
    /\ \E c \in Clients :
           \/ \E body \in UserRegisterBodies :
                 Register(c, body) /\ Len(readJSON(usersFile')) <= MaxUsers
           \/ \E body \in UserLoginBodies : Login(c, body)

SpecUsers == Init /\ [][NextUsers]_vars

(***************************************************************************)
(* Farm reports: search and chart series over the same store               *)
(***************************************************************************)
Bed1 == Str(<<"b", "1">>)
ChartBodies ==
    { [weekRange |-> Week("6", "-", "8"), farm |-> FarmA, greenhouse |-> House1,
       bed |-> Bed1],
      [weekRange |-> Week("1", "-", "3"), farm |-> FarmA, greenhouse |-> House1],
      [weekRange |-> Week("4", "-", "4"), farm |-> FarmB, greenhouse |-> House1,
       bed |-> Bed1, pestRate |-> Num(3)],
      [weekRange |-> Str(<<"x">>), farm |-> FarmA, greenhouse |-> House1] }
ChartQueries ==
    { EmptyObj,
      [farm |-> Str(<<"a">>)],
      [farm |-> FarmA, weekFrom |-> Str(<<"4">>)],
      [bed |-> Bed1],
      [pestRateMin |-> Str(<<"2">>)] }

NextCharts ==
    /\ UNCHANGED inFlight
    /\ \E c \in Clients :
           \/ \E body \in ChartBodies :
                 FarmAppend(c, body) /\ Len(readJSON(farmFile')) <= MaxFarmRows
           \/ \E query \in ChartQueries : FarmSearch(c, query)
           \/ \E query \in ChartQueries : FarmCharts(c, query)

SpecCharts == InitSignedIn /\ [][NextCharts]_vars

(***************************************************************************)
(* Reads of record files that are missing, empty or unparsable             *)
(***************************************************************************)
AgroFilesFound ==
    { MissingFile, BlankFile, GarbageFile,
      JsonFile(<<[id |-> Num(1), farm |-> FarmA, supervisorRemarks |-> EmptyStr]>>) }

\* The server is running; a record file is as a read may find it
InitRead ==
    /\ usersFile = JsonFile(SignedInUsers)
    /\ payrollFile = JsonFile(PayrollTable)
    /\ agroFile \in AgroFilesFound
    /\ farmFile \in FilesFound
    /\ session = [c \in Clients |->
                    IF c = "c1" THEN [username |-> NameA, role |-> ROLES.Agronomist]
                    ELSE [username |-> NameB, role |-> ROLES.Supervisor]]
    /\ uploads = 0
    /\ clock = 1
    /\ last = NoRequest
    /\ inFlight = [c \in Clients |-> Idle]

NextRead ==
    /\ UNCHANGED inFlight
    /\ \E c \in Clients :
           \/ \E query \in StartQueries : FarmSearch(c, query)
           \/ AgroExport(c)

SpecRead == InitRead /\ [][NextRead]_vars

(***************************************************************************)
(* Batches that mix rows with and without identifier                       *)
(***************************************************************************)
MixedBatches ==
    { <<[farm |-> FarmA]>>,
      <<[farm |-> FarmA], [id |-> Num(1), farm |-> FarmB]>>,
      <<[id |-> Num(2), farm |-> FarmB], [farm |-> FarmA]>> }
\* The worksheet that holds the rows of a batch
SheetOf(rows) == [keys |-> {"id", "farm"}, cells |-> rows]

NextBatch ==
    /\ UNCHANGED inFlight
    /\ \E c \in Clients : \E rows \in MixedBatches :
           \/ AgroBulkSet(c, Arr(rows)) /\ AgroFits
           \/ AgroImport(c, SheetOf(rows)) /\ AgroFits

SpecBatch == InitSignedIn /\ [][NextBatch]_vars

(***************************************************************************)
(* Batches saved, and saved again                                          *)
(***************************************************************************)
SaveBatches ==
    { NotArray,
      Arr(<<[farm |-> FarmA]>>),
      Arr(<<[id |-> Num(1), farm |-> FarmB], [farm |-> FarmA]>>),
      Arr(<<[id |-> Num(5), farm |-> FarmA], [farm |-> FarmB, gh |-> Null]>>),
      Arr(<<[farm |-> ArrayOf(<<FarmA>>)]>>) }

NextSave ==
    /\ UNCHANGED inFlight
    /\ \E c \in Clients :
           \/ \E batch \in SaveBatches : AgroSave(c, batch) /\ AgroFits
           \/ AgroAdd(c, [farm |-> FarmB, supervisorRemarks |-> RemarkX]) /\ AgroFits

SpecSave == InitSignedIn /\ [][NextSave]_vars

(***************************************************************************)
(* Properties                                                              *)
(***************************************************************************)
Users == readJSON(usersFile)

\* The payroll table holds no record with the requested number and role
NoPayrollRecord(body) ==
    ~\E i \in DOMAIN readJSON(payrollFile) :
        /\ ToStr(Get(readJSON(payrollFile)[i], "payrollNumber"))
               = ToStr(Get(body, "payrollNumber"))
        /\ Get(readJSON(payrollFile)[i], "role") = Get(body, "role")

\* The request passes the checks made before the payroll lookup
RegisterWellFormed(body) ==
    /\ Truthy(Get(body, "username")) /\ Truthy(Get(body, "password"))
    /\ Truthy(Get(body, "role")) /\ Truthy(Get(body, "payrollNumber"))
    /\ Get(body, "role") \in RoleValues
    /\ \A i \in DOMAIN Users : Get(Users[i], "username") # Get(body, "username")

\* C1 as stated: every register request whose payroll number is absent from the
\* payroll table, or recorded with another role, is answered with the
\* credential-mismatch message and leaves the user list as it was.
C1_AlwaysMismatchMessage ==
    [][(last'.op = "register" /\ NoPayrollRecord(last'.req))
        => /\ ~last'.success
           /\ last'.message = "Payroll number mismatch"
           /\ usersFile' = usersFile]_vars

\* C1 as amended: such a request always fails and creates no user; it carries
\* the credential-mismatch message when it supplies all four fields, names a
\* valid role and a username not yet taken (the checks made first answer with
\* their own messages otherwise).
C1_MismatchCreatesNoUser ==
    [][(last'.op = "register" /\ NoPayrollRecord(last'.req))
        => /\ ~last'.success
           /\ usersFile' = usersFile
           /\ (RegisterWellFormed(last'.req)
                  => last'.message = "Payroll number mismatch")]_vars

\* A well-formed registration was refused for its payroll role while a user
\* registered earlier is on file
C1_Witness ==
    /\ last.op = "register"
    /\ last.message = "Payroll number mismatch"
    /\ Get(last.req, "payrollNumber") = Num(1)
    /\ Get(last.req, "role") = ROLES.Viewer
    /\ Len(Users) = 1
AgroRows == readJSON(agroFile)
\* The numeric identifiers stored
StoredIds == {Get(AgroRows[i], "id").num : i \in {j \in DOMAIN AgroRows : IsNum(Get(AgroRows[j], "id"))}}
SetMax(S) == CHOOSE m \in S : \A x \in S : x <= m

\* C2: the identifier of the row an add call creates is one plus the largest
\* identifier stored before the call (1 for an empty store), hence larger than
\* every identifier created before it and distinct from all of them.
C2_AddIdsIncrease ==
    [][(last'.op = "add" /\ last'.status = 200)
        => LET id == Get(last'.row, "id")
           IN /\ IsNum(id)
              /\ id.num = (IF StoredIds = {} THEN 1 ELSE SetMax(StoredIds) + 1)
              /\ \A x \in StoredIds : x < id.num]_vars
Remarks(row) == Get(row, "supervisorRemarks")
\* The rows of a bulk_set or save request
Batch(req) == IF DOMAIN req = {"array"} THEN req.array ELSE <<>>
SameId(a, b) == StrictEq(Get(a, "id"), Get(b, "id"))

\* C3 as stated: when a bulk_set batch contains a row with the identifier of a
\* stored row and no supervisorRemarks field, the stored row's non-empty
\* supervisorRemarks is the same after the request.
C3_OmittingRowKeepsRemark ==
    [][(last'.op = "bulk_set" /\ last'.status = 200)
        => \A i \in DOMAIN AgroRows :
              (/\ Truthy(Remarks(AgroRows[i]))
               /\ \E j \in DOMAIN Batch(last'.req) :
                     /\ SameId(Batch(last'.req)[j], AgroRows[i])
                     /\ "supervisorRemarks" \notin DOMAIN Batch(last'.req)[j])
              => Remarks(AgroRows'[i]) = Remarks(AgroRows[i])]_vars

\* C3 as amended: the same, for a batch in which some row has the stored row's
\* identifier and no row with that identifier carries a supervisorRemarks
\* field (a row of the same batch that carries one still sets it).
C3_OmittingBatchKeepsRemark ==
    [][(last'.op = "bulk_set" /\ last'.status = 200)
        => \A i \in DOMAIN AgroRows :
              (/\ Truthy(Remarks(AgroRows[i]))
               /\ \E j \in DOMAIN Batch(last'.req) :
                     SameId(Batch(last'.req)[j], AgroRows[i])
               /\ \A j \in DOMAIN Batch(last'.req) :
                     SameId(Batch(last'.req)[j], AgroRows[i])
                        => "supervisorRemarks" \notin DOMAIN Batch(last'.req)[j])
              => Remarks(AgroRows'[i]) = Remarks(AgroRows[i])]_vars

\* A bulk_set that changed the farm of row 1 and sent no remark has left the
\* remark the supervisor had set
C3_Witness ==
    /\ last.op = "bulk_set" /\ last.status = 200
    /\ last.req = Arr(<<[id |-> Num(1), farm |-> FarmB]>>)
    /\ Len(AgroRows) >= 1
    /\ Get(AgroRows[1], "id") = Num(1)
    /\ Get(AgroRows[1], "farm") = FarmB
    /\ Remarks(AgroRows[1]) = RemarkX

\* No stored row has the identifier Number(id)
NoRowMatches(id) ==
    \A i \in DOMAIN AgroRows : ~StrictEq(Get(AgroRows[i], "id"), ToNumber(id))
PatchHandled(l) == l.op = "supervisor-remarks" /\ l.status \notin {401, 403}

\* C4 as stated: a remarks patch that names an identifier no stored row has is
\* answered 404 and leaves the agronomy file as it was.
C4_UnknownIdIs404 ==
    [][(PatchHandled(last') /\ "id" \in DOMAIN last'.req
            /\ NoRowMatches(Get(last'.req, "id")))
        => last'.status = 404 /\ agroFile' = agroFile]_vars

\* C4 as amended: such a patch leaves the agronomy file as it was; it is
\* answered 404 when the identifier is truthy, and 400 (missing id) when the
\* identifier is 0 or empty.
C4_UnknownIdLeavesFile ==
    [][(PatchHandled(last') /\ "id" \in DOMAIN last'.req
            /\ NoRowMatches(Get(last'.req, "id")))
        => /\ agroFile' = agroFile
           /\ last'.status = (IF Truthy(Get(last'.req, "id")) THEN 404 ELSE 400)]_vars

\* A patch for identifier 9 was answered 404 while other rows are stored
C4_Witness ==
    /\ last.op = "supervisor-remarks" /\ last.status = 404
    /\ Get(last.req, "id") = Num(9)
    /\ Len(AgroRows) = 2

\* The rows a bulk_set or an import brings, and whether row j of them supplies
\* supervisorRemarks
IncomingRows(req) ==
    IF DOMAIN req = {"array"} THEN req.array
    ELSE IF DOMAIN req = {"keys", "cells"} THEN SheetToJson(req)
    ELSE <<>>
Supplies(req, j) ==
    IF DOMAIN req = {"array"} THEN "supervisorRemarks" \in DOMAIN req.array[j]
    ELSE "supervisorRemarks" \in DOMAIN SelectSeq(req.cells, LAMBDA cells : DOMAIN cells # {})[j]
SuppliedFor(req, row) ==
    \E j \in DOMAIN IncomingRows(req) :
        SameId(IncomingRows(req)[j], row) /\ Supplies(req, j)
MergeHandled(l) == l.op \in {"bulk_set", "import"} /\ l.status = 200

FarmRows == readJSON(farmFile)
SearchHandled == last.op = "farm-search" /\ last.status = 200
WeekFrom(query) == QueryInt(Get(query, "weekFrom"))
WeekTo(query) == QueryInt(Get(query, "weekTo"))
WeekFiltered(query) == WeekFrom(query) # Null \/ WeekTo(query) # Null
WeekParsed(r) == parseWeekRange(Get(r, "weekRange")).start # NaN
WeekStart(r) == parseWeekRange(Get(r, "weekRange")).start.num
WeekEnd(r) == parseWeekRange(Get(r, "weekRange")).end.num
\* the row's weeks and the requested interval have a week in common
Overlaps(r, query) ==
    /\ WeekParsed(r)
    /\ WeekFrom(query) # Null => WeekEnd(r) >= WeekFrom(query).num
    /\ WeekTo(query) # Null => WeekStart(r) <= WeekTo(query).num
\* every week of the row is inside the requested interval
Within(r, query) ==
    /\ WeekParsed(r)
    /\ WeekFrom(query) # Null => WeekStart(r) >= WeekFrom(query).num
    /\ WeekTo(query) # Null => WeekEnd(r) <= WeekTo(query).num
WeeksOf(rows) == [i \in 1..Len(rows) |-> Get(rows[i], "weekRange")]

\* C5 as stated: a search with a week filter returns exactly the stored rows
\* whose parsed week range overlaps the interval weekFrom..weekTo.
C5_SearchReturnsOverlapping ==
    (SearchHandled /\ WeekFiltered(last.req)) =>
        Range(last.result) = { r \in Range(FarmRows) : Overlaps(r, last.req) }

\* C5 as the code has it: a search with a week filter returns exactly the stored
\* rows whose parsed week range lies inside the interval weekFrom..weekTo.
C5_SearchReturnsContained ==
    (SearchHandled /\ WeekFiltered(last.req)) =>
        Range(last.result) = { r \in Range(FarmRows) : Within(r, last.req) }

\* weekFrom=2, weekTo=5 over "1-3", "4-4", "6-8" answers with "4-4" alone
C5_Witness ==
    /\ SearchHandled
    /\ Get(last.req, "weekFrom") = Str(<<"2">>)
    /\ Get(last.req, "weekTo") = Str(<<"5">>)
    /\ WeeksOf(FarmRows) = <<Week("1", "-", "3"), Week("4", "-", "4"), Week("6", "-", "8")>>
    /\ WeeksOf(last.result) = <<Week("4", "-", "4")>>

AppendHandled(l) == l.op = "farm-append" /\ l.status \notin {401, 403}
LacksRequired(body) ==
    \E k \in {"weekRange", "farm", "greenhouse"} : Get(body, k) \in {Undef, EmptyStr}

\* C7: an append whose weekRange, farm or greenhouse is missing or empty is
\* answered 400 and leaves the farm-report file as it was.
C7_MissingFieldIs400 ==
    [][(AppendHandled(last') /\ LacksRequired(last'.req)) =>
          (last'.status = 400 /\ farmFile' = farmFile)]_vars

\* an append without greenhouse was refused while the file held a row
C7_Witness ==
    /\ AppendHandled(last)
    /\ Get(last.req, "greenhouse") = Undef
    /\ Truthy(Get(last.req, "weekRange")) /\ Truthy(Get(last.req, "farm"))
    /\ last.status = 400
    /\ Len(FarmRows) >= 1

(***************************************************************************)
(* Export followed by import of the exported rows                          *)
(***************************************************************************)
\* the import just handled took the workbook that holds exactly the stored rows
ReimportOf(rows, l) == l.op = "import" /\ l.status = 200 /\ l.req = JsonToSheet(rows)
KeepsField(before, after, k) ==
    (k = "id" /\ Falsy(Get(before, "id"))) \/ Get(after, k) = Get(before, k)

\* C6: importing the export of the stored rows leaves every stored row with the
\* same value for every field it had; only a row without identifier may get one.
C6_RoundTripKeepsFields ==
    [][ReimportOf(AgroRows, last') =>
          \A i \in DOMAIN AgroRows :
              /\ i \in DOMAIN AgroRows'
              /\ \A k \in DOMAIN AgroRows[i] : KeepsField(AgroRows[i], AgroRows'[i], k)]_vars

(***************************************************************************)
(* The role gate in front of the routes that write                         *)
(***************************************************************************)
WriteOps == {"add", "save", "bulk_set", "import", "farm-append"}
GatedOps == WriteOps \cup {"supervisor-remarks"}
AllowList(op) ==
    IF op \in WriteOps THEN {ROLES.Agronomist, ROLES.GeneralManager}
    ELSE {ROLES.Supervisor, ROLES.Agronomist, ROLES.GeneralManager}
SignedIn(c) == session[c] # Undef
RoleOf(c) == Get(session[c], "role")
StoredData == <<usersFile, payrollFile, agroFile, farmFile, uploads>>

\* C8: whatever was registered, logged in and logged out before, a request to a
\* gated route is answered 401 when its session holds no user and 403 when the
\* session user's role is outside the route's allow-list, and then nothing
\* stored changes; add, save, bulk_set, import and farm-report append change
\* stored data only for a session of an Agronomist or a GeneralManager.
C8_GateGuardsWriters ==
    [][last'.op \in GatedOps =>
          LET c == last'.client
          IN /\ ~SignedIn(c) => (last'.status = 401 /\ StoredData' = StoredData)
             /\ (SignedIn(c) /\ RoleOf(c) \notin AllowList(last'.op)) =>
                    (last'.status = 403 /\ StoredData' = StoredData)
             /\ (last'.op \in WriteOps /\ StoredData' # StoredData) =>
                    (SignedIn(c) /\ RoleOf(c) \in {ROLES.Agronomist, ROLES.GeneralManager})]_vars

\* a Supervisor's add was refused with 403 after an Agronomist, signed in on the
\* other session, had stored a row
C8_Witness ==
    /\ last.op = "add" /\ last.status = 403
    /\ SignedIn(last.client) /\ RoleOf(last.client) = ROLES.Supervisor
    /\ Len(AgroRows) = 1
    /\ \E c \in Clients : SignedIn(c) /\ RoleOf(c) = ROLES.Agronomist

(***************************************************************************)
(* Two add requests in flight at the same time                             *)
(***************************************************************************)
Succeeded(c) == inFlight[c].phase = "responded" /\ inFlight[c].status = 200
Holds(c) == inFlight[c].row \in Range(AgroRows)
\* both requests were answered with success and the file lacks the row of one
LostUpdate ==
    \E c, d \in Clients : c # d /\ Succeeded(c) /\ Succeeded(d) /\ ~(Holds(c) /\ Holds(d))

KeepsRows(before, after) ==
    /\ Len(after) >= Len(before)
    /\ \A i \in DOMAIN before : after[i] = before[i]
\* the same, but a row without a creation time may have been given one
KeepsRowsButStamp(before, after) ==
    /\ Len(after) >= Len(before)
    /\ \A i \in DOMAIN before :
          /\ DOMAIN after[i] \subseteq DOMAIN before[i] \cup {"createdAt"}
          /\ \A k \in DOMAIN before[i] :
                \/ after[i][k] = before[i][k]
                \/ k = "createdAt" /\ Falsy(before[i][k])
          /\ Truthy(Get(before[i], "createdAt")) => after[i] = before[i]

C12_AgroIdsUnique ==
    \A i, j \in DOMAIN AgroRows :
        i # j => Get(AgroRows[i], "id") # Get(AgroRows[j], "id")

(***************************************************************************)
(* The stored users                                                        *)
(***************************************************************************)
\* C13: after any sequence of register requests no two stored users share a
\* username, and no request changes or removes a stored user record.
C13_UsernamesUniqueUsersKept ==
    [][/\ \A i, j \in DOMAIN Users' :
             i # j => Get(Users'[i], "username") # Get(Users'[j], "username")
       /\ KeepsRows(Users, Users')]_vars

(***************************************************************************)
(* Chart series against search                                             *)
(***************************************************************************)
ChartsHandled == last.op = "farm-charts" /\ last.status = 200
AscendingByWeek(rows) ==
    \A i, j \in DOMAIN rows : i < j => WeekStartOrZero(rows[i]) <= WeekStartOrZero(rows[j])
\* what a search with this query answers on the stored rows
SearchAnswer(query) == filterFarmRows(FarmRows, query)
FiveFilters == {"year", "farm", "greenhouse", "pest", "disease"}
OnlyFive(query) == [k \in FiveFilters \cap DOMAIN query |-> query[k]]

\* C14 as stated: the chart series holds the same rows as a search with the same
\* filters, whatever the filters, in ascending order of the parsed week start.
C14_ChartsSameRowsAsSearch ==
    ChartsHandled =>
        /\ Range(last.result) = Range(SearchAnswer(last.req))
        /\ AscendingByWeek(last.result)

\* C14 as the code has it: the chart series holds the same rows as a search with
\* the year, farm, greenhouse, pest and disease filters of the request alone, in
\* ascending order of the parsed week start (0 when it does not parse).
C14_ChartsSameRowsAsFiveFilterSearch ==
    ChartsHandled =>
        /\ Range(last.result) = Range(SearchAnswer(OnlyFive(last.req)))
        /\ Len(last.result) = Len(SearchAnswer(OnlyFive(last.req)))
        /\ AscendingByWeek(last.result)

\* a chart request with a farm and a week filter over three stored rows answered
\* with two rows, one of them outside the requested weeks; search answers with none
C14_Witness ==
    /\ ChartsHandled
    /\ Get(last.req, "weekFrom") = Str(<<"4">>) /\ Get(last.req, "farm") = FarmA
    /\ Len(FarmRows) = 3
    /\ WeeksOf(last.result) = <<Week("1", "-", "3"), Week("6", "-", "8")>>
    /\ WeeksOf(SearchAnswer(last.req)) = <<Week("6", "-", "8")>>

(***************************************************************************)
(* The temporary file of an import                                         *)
(***************************************************************************)
\* the import just handled had a file uploaded by multer
UploadedImport(l) == l.op = "import" /\ l.status \notin {401, 403} /\ l.req # NoFile

\* C15: when an import that uploaded a file has responded, with success or with
\* an error, its temporary file is deleted: no file more is left in uploads/.
C15_UploadDeletedAfterImport ==
    [][UploadedImport(last') => uploads' = uploads]_vars

(***************************************************************************)
(* Reading a record file                                                   *)
(***************************************************************************)
Unusable(f) == f \in {MissingFile, BlankFile, GarbageFile}
\* the file after a read: created with an empty array when missing, else as it was
AfterRead(f, g) == IF f = MissingFile THEN g = JsonFile(<<>>) ELSE g = f

\* C16: a read of a record file that is missing, empty or unparsable gives the
\* empty collection and the request is served without error; a missing file is
\* created holding an empty array, and the content of an existing file is not
\* altered by the read.
C16_ReadFallsBackToEmpty ==
    [][/\ last'.op = "farm-search" =>
             /\ AfterRead(farmFile, farmFile')
             /\ Unusable(farmFile) => (last'.status = 200 /\ last'.result = <<>>)
       /\ last'.op = "export" =>
             /\ AfterRead(agroFile, agroFile')
             /\ Unusable(agroFile) =>
                   (last'.status = 200 /\ last'.sheet = JsonToSheet(<<>>))]_vars

\* a search was answered with no row from an unparsable file that is still there,
\* next to an agronomy file that a read has created
C16_Witness ==
    /\ last.op = "farm-search" /\ last.status = 200 /\ last.result = <<>>
    /\ farmFile = GarbageFile
    /\ agroFile = JsonFile(<<>>)

(***************************************************************************)
(* What a remarks patch, and a Supervisor, can change                      *)
(***************************************************************************)
\* the two rows agree on every field, supervisorRemarks left aside
SameButRemarks(a, b) ==
    /\ DOMAIN a \ {"supervisorRemarks"} = DOMAIN b \ {"supervisorRemarks"}
    /\ \A k \in DOMAIN a \ {"supervisorRemarks"} : a[k] = b[k]
\* row i is the one row that may differ, and only in supervisorRemarks
OnlyRemarkOf(i, before, after) ==
    /\ Len(after) = Len(before)
    /\ \A j \in DOMAIN before :
          IF j = i THEN SameButRemarks(before[j], after[j]) ELSE after[j] = before[j]
IsSupervisor(c) == session[c] # Undef /\ Get(session[c], "role") = ROLES.Supervisor

IdOf(row) == Get(row, "id")
\* the incoming rows that carry no identifier, by position, and the identifiers
\* the other incoming rows carry
IdLess(req) == {j \in DOMAIN IncomingRows(req) : Falsy(IdOf(IncomingRows(req)[j]))}
ExplicitIds(req) == {IdOf(IncomingRows(req)[j]) : j \in DOMAIN IncomingRows(req) \ IdLess(req)}
\* the identifiers of the rows behind the first n that no row before and no
\* explicit identifier of the batch has
FreshIds(before, after, req) ==
    {IdOf(after[j]) : j \in (DOMAIN after) \ (DOMAIN before)}
        \ ({IdOf(before[i]) : i \in DOMAIN before} \cup ExplicitIds(req))

\* C18: a bulk_set or an import stores each incoming row without identifier as an
\* additional row under an identifier that no stored row and no other row of the
\* batch has; the row count grows by at least the number of such rows.
C18_IdLessRowsAreAdditional ==
    [][MergeHandled(last') =>
          /\ Len(AgroRows') >= Len(AgroRows) + Cardinality(IdLess(last'.req))
          /\ Cardinality(FreshIds(AgroRows, AgroRows', last'.req))
                >= Cardinality(IdLess(last'.req))]_vars

(***************************************************************************)
(* What a save stores                                                      *)
(***************************************************************************)
SaveHandled(l) == l.op = "save" /\ l.status = 200
\* the stored row and the incoming row have the same identifier, or the same
\* farm, gh, area, crop and time
Matches(stored, row) ==
    \/ Get(stored, "id") = Get(row, "id") /\ Get(row, "id") # Undef
    \/ \A k \in {"farm", "gh", "area", "crop", "time"} : Get(stored, k) = Get(row, k)

\* C19: a save keeps every stored row as it was and only appends; the added and
\* duplicates counts sum to the batch size and added is the number of rows
\* appended; each appended row matches no row stored before the save; and the
\* same batch saved a second time adds no row.
C19_SaveOnlyAppendsOnce ==
    [][SaveHandled(last') =>
          /\ KeepsRows(AgroRows, AgroRows')
          /\ last'.added + last'.duplicates = Len(Batch(last'.req))
          /\ Len(AgroRows') = Len(AgroRows) + last'.added
          /\ \A j \in (DOMAIN AgroRows') \ (DOMAIN AgroRows) :
                \A i \in DOMAIN AgroRows :
                    ~Matches(AgroRows[i], [k \in DOMAIN AgroRows'[j] \ {"id"} |-> AgroRows'[j][k]])
          /\ (SaveHandled(last) /\ last.req = last'.req) => AgroRows' = AgroRows]_vars

====
